---- MODULE Spec2Model ----
(***************************************************************************)
(* goTrading: the backtest engine (backtest.go), the rule-based signal     *)
(* (analyze.go), the live monitor loop (main.go) and the trainable         *)
(* predictor (ml_strategy.go) with the calls ml_cli.go makes on it.        *)
(*                                                                         *)
(* float64 amounts of the portfolio are modelled as exact rationals        *)
(* [n, d] (so a statement about cash or holdings is a statement about the  *)
(* real-number result of the code's formulas, not about IEEE rounding);    *)
(* techan's big.Decimal indicator values are modelled as fixed-point       *)
(* numbers with Scale units per 1, quotients rounded down.                 *)
(***************************************************************************)
EXTENDS Integers, Sequences, FiniteSets

VARIABLES
    config,        \* BacktestEngine.config: Symbol, InitialBalance, TransactionFee
    portfolio,     \* BacktestEngine.portfolio: Cash, Holdings, LastPrices
    trades,        \* BacktestEngine.trades
    call,          \* arguments of the latest ExecuteTrade call
    ret,           \* what the latest ExecuteTrade call returned (FALSE before any call)
    klines,        \* the candles fetchKlines returned to RunBacktest
    idx,           \* RunBacktest's loop index i
    pc,            \* RunBacktest: "start", "loop", "done", "error", "panic"; else "engine", "monitor"
    signal,        \* the signal analyze returned in the latest loop step
    equityCurve,   \* RunBacktest's equityCurve
    dailyReturns,  \* RunBacktest's dailyReturns
    maxValue,      \* RunBacktest's maxValue (running peak equity)
    maxDrawdown,   \* RunBacktest's maxDrawdown
    result,        \* the BacktestResult RunBacktest returns
    UseMLAnalyze,  \* analyze.go's global flag
    ts,            \* the techan.TimeSeries: RunBacktest's ts, main.go's seriesMap[symbol]
    action,        \* main.go: what analyze returned in the latest tick of the main loop
    ml,            \* the MLModel: config, features, trainedWeights, featureStats, ...
    clock,         \* what time.Now() returns (ml_strategy.go)
    mlret,         \* the latest MLModel call and what it returned
    added          \* every sample handed to AddTrainingData so far, sanitized, in call order

vars == <<config, portfolio, trades, call, ret, klines, idx, pc, signal,
          equityCurve, dailyReturns, maxValue, maxDrawdown, result, UseMLAnalyze,
          ts, action, ml, clock, mlret, added>>

mlVars == <<ml, clock, mlret, added>>

(***************************************************************************)
(* Bounds of the model.                                                    *)
(***************************************************************************)
MaxPrice == 2        \* ExecuteTrade is called with prices 1..MaxPrice
MaxTrades == 3       \* executed trades per engine in the free-call specification
MaxTime == 0         \* timestamps 0..MaxTime handed to ExecuteTrade
StartCash == 100     \* the positive InitialBalance
FeeDen == 4          \* the positive fee rate is 1/FeeDen

(***************************************************************************)
(* Exact rationals: [n |-> numerator, d |-> denominator > 0], reduced.     *)
(***************************************************************************)
Abs(x) == IF x < 0 THEN -x ELSE x

RECURSIVE GCD(_, _)
GCD(a, b) == IF b = 0 THEN a ELSE GCD(b, a % b)

Norm(n, d) ==
    LET s == IF d < 0 THEN -1 ELSE 1
        g == GCD(Abs(n), Abs(d))
    IN  IF n = 0 THEN [n |-> 0, d |-> 1]
        ELSE [n |-> (s * n) \div g, d |-> (s * d) \div g]

Rat(k) == [n |-> k, d |-> 1]
Zero == Rat(0)

RAdd(x, y) ==
    LET g == GCD(x.d, y.d)
    IN  Norm(x.n * (y.d \div g) + y.n * (x.d \div g), (x.d \div g) * y.d)
RNeg(x) == [n |-> -x.n, d |-> x.d]
RSub(x, y) == RAdd(x, RNeg(y))
RMul(x, y) ==
    LET g1 == GCD(Abs(x.n), y.d)
        g2 == GCD(Abs(y.n), x.d)
    IN  IF x.n = 0 \/ y.n = 0 THEN Zero
        ELSE Norm((x.n \div g1) * (y.n \div g2), (x.d \div g2) * (y.d \div g1))
RDiv(x, y) == RMul(x, Norm(y.d, y.n))      \* y # 0
RLt(x, y) == RSub(x, y).n < 0
RLe(x, y) == RSub(x, y).n <= 0
RGt(x, y) == RLt(y, x)
RGe(x, y) == RLe(y, x)

(***************************************************************************)
(* backtest.go: the portfolio and ExecuteTrade.                            *)
(***************************************************************************)
Symbols == {"BTCUSDT", "ETHUSDT"}

\* Go's map read: the zero value when the key is absent.
HoldingOf(p, symbol) ==
    IF symbol \in DOMAIN p.Holdings THEN p.Holdings[symbol] ELSE Zero

MapSet(m, k, v) == [x \in (DOMAIN m) \cup {k} |-> IF x = k THEN v ELSE m[x]]
MapDelete(m, k) == [x \in (DOMAIN m) \ {k} |-> m[x]]
EmptyMap == [x \in {} |-> Zero]

NewPortfolio(cfg) ==
    [Cash |-> cfg.InitialBalance, Holdings |-> EmptyMap, LastPrices |-> EmptyMap]

RECURSIVE SumHoldings(_, _)
SumHoldings(p, syms) ==
    IF syms = {} THEN Zero
    ELSE LET s == CHOOSE x \in syms : TRUE
         IN  RAdd(IF s \in DOMAIN p.LastPrices
                  THEN RMul(p.Holdings[s], p.LastPrices[s]) ELSE Zero,
                  SumHoldings(p, syms \ {s}))

GetPortfolioValue(p) == RAdd(p.Cash, SumHoldings(p, DOMAIN p.Holdings))

\* Mutant: the fee rate taken as a flat fee per unit.
UnitFeeFlat(cfg, price) == cfg.TransactionFee
\* fee := price * be.config.TransactionFee
UnitFee(cfg, price) == RMul(price, cfg.TransactionFee)

\* Mutant: half of the cash spent.
MaxQuantityHalf(cash, price, fee) == RDiv(cash, RMul(Rat(2), RAdd(price, fee)))
\* Mutant: the quantity sized on the price alone, the fee forgotten.
MaxQuantityNoFee(cash, price, fee) == RDiv(cash, price)
\* maxQuantity := availableCash / (price + fee)
MaxQuantity(cash, price, fee) == RDiv(cash, RAdd(price, fee))

\* Mutant: "<" for "<=", so a BUY of nothing is executed.
InsufficientFundsStrict(maxQuantity) == RLt(maxQuantity, Zero)
\* if maxQuantity <= 0 { return false }
InsufficientFunds(maxQuantity) == RLe(maxQuantity, Zero)

\* Mutant: the fee is not deducted from the cash.
CashAfterBuyNoFee(cash, totalCost, totalFee) == RSub(cash, totalCost)
\* be.portfolio.Cash -= (totalCost + totalFee)
CashAfterBuy(cash, totalCost, totalFee) == RSub(cash, RAdd(totalCost, totalFee))

\* Mutant: the fee is credited instead of deducted.
CashAfterSellFeeAdded(cash, totalRevenue, totalFee) ==
    RAdd(cash, RAdd(totalRevenue, totalFee))
\* netRevenue := totalRevenue - totalFee; be.portfolio.Cash += netRevenue
CashAfterSell(cash, totalRevenue, totalFee) == RAdd(cash, RSub(totalRevenue, totalFee))

NewTrade(symbol, tradeType, price, quantity, timestamp, totalFee, p) ==
    [Symbol |-> symbol, Type |-> tradeType, Price |-> price, Quantity |-> quantity,
     Timestamp |-> timestamp, Fee |-> totalFee, Balance |-> p.Cash,
     TotalValue |-> GetPortfolioValue(p)]

\* The BUY case: [ok, portfolio, trades].
ExecuteBuy(cfg, p, trs, symbol, price, timestamp) ==
    LET fee == UnitFee(cfg, price)
        maxQuantity == MaxQuantity(p.Cash, price, fee)
        totalCost == RMul(maxQuantity, price)
        totalFee == RMul(maxQuantity, fee)
        p2 == [Cash |-> CashAfterBuy(p.Cash, totalCost, totalFee),
               Holdings |-> MapSet(p.Holdings, symbol,
                                   RAdd(HoldingOf(p, symbol), maxQuantity)),
               LastPrices |-> MapSet(p.LastPrices, symbol, price)]
    IN  IF InsufficientFunds(maxQuantity)
        THEN [ok |-> FALSE, portfolio |-> p, trades |-> trs]
        ELSE [ok |-> TRUE, portfolio |-> p2,
              trades |-> Append(trs, NewTrade(symbol, "BUY", price, maxQuantity,
                                              timestamp, totalFee, p2))]

\* The SELL case: [ok, portfolio, trades].
ExecuteSell(cfg, p, trs, symbol, price, timestamp) ==
    LET fee == UnitFee(cfg, price)
        quantity == HoldingOf(p, symbol)
        totalRevenue == RMul(quantity, price)
        totalFee == RMul(quantity, fee)
        p2 == [Cash |-> CashAfterSell(p.Cash, totalRevenue, totalFee),
               Holdings |-> MapDelete(p.Holdings, symbol),
               LastPrices |-> MapSet(p.LastPrices, symbol, price)]
    IN  IF symbol \notin DOMAIN p.Holdings \/ RLe(quantity, Zero)
        THEN [ok |-> FALSE, portfolio |-> p, trades |-> trs]
        ELSE [ok |-> TRUE, portfolio |-> p2,
              trades |-> Append(trs, NewTrade(symbol, "SELL", price, quantity,
                                              timestamp, totalFee, p2))]

\* ExecuteTrade as a function of the engine's state: [ok, portfolio, trades].
ExecuteTradeResult(cfg, p, trs, symbol, tradeType, price, timestamp) ==
    CASE tradeType = "BUY" -> ExecuteBuy(cfg, p, trs, symbol, price, timestamp)
      [] tradeType = "SELL" -> ExecuteSell(cfg, p, trs, symbol, price, timestamp)
      [] OTHER -> [ok |-> FALSE, portfolio |-> p, trades |-> trs]

NoCall == [symbol |-> "", tradeType |-> "", price |-> Zero, timestamp |-> 0]
NoResult == [FinalBalance |-> Zero, FinalValue |-> Zero, TotalReturn |-> Zero,
             MaxDrawdown |-> Zero, MaxDrawdownPct |-> Zero, TotalTrades |-> 0,
             WinRate |-> Zero, WinningTrades |-> 0, LosingTrades |-> 0,
             AverageWin |-> Zero, AverageLoss |-> Zero, SharpeRatio |-> 0]

(***************************************************************************)
(* techan, as analyze.go uses it.  A series is a sequence of candles        *)
(* [Period, OpenPrice, MaxPrice, MinPrice, ClosePrice]; index i of the code *)
(* is element i + 1 here.  An indicator is the sequence of its values at    *)
(* the indices 0..LastIndex (techan's resultCache), in units of 1/Scale.    *)
(***************************************************************************)
Scale == 1000

ShortWindow == 9         \* techan.NewEMAIndicator(closePrices, 9)
LongWindow == 21         \* techan.NewEMAIndicator(closePrices, 21)
RsiWindow == 14          \* techan.NewRelativeStrengthIndexIndicator(closePrices, 14)
MacdFast == 12           \* techan.NewMACDIndicator(closePrices, 12, 26)
MacdSlow == 26
MacdSignalWindow == 9    \* techan.NewMACDHistogramIndicator(macd, 9)
WarmUp == 26             \* if lastIdx < 26 { return "WAIT" }
RsiOverbought == 70      \* rsiVal.LT(big.NewDecimal(70))
RsiOversold == 30        \* rsiVal.GT(big.NewDecimal(30))
CandleMinutes == 15      \* techan.NewTimePeriod(start, time.Minute*15)

\* big.NewDecimal(k)
Dec(k) == k * Scale

\* ts.LastIndex()
LastIndex(series) == Len(series) - 1

\* techan.NewTimePeriod(start, time.Minute*15)
NewTimePeriod(start) == [Start |-> start, End |-> start + CandleMinutes]

\* TimeSeries.AddCandle: the candle is appended only when its period starts no
\* earlier than the last candle's period ends.
AddCandle(series, candle) ==
    IF series = <<>> \/ candle.Period.Start - series[Len(series)].Period.End >= 0
    THEN Append(series, candle)
    ELSE series

\* techan.NewClosePriceIndicator(ts)
ClosePriceIndicator(series) == [k \in 1..Len(series) |-> Dec(series[k].ClosePrice)]

RECURSIVE SumRange(_, _, _)
SumRange(xs, from, to) ==
    IF from > to THEN 0
    ELSE IF from = to THEN xs[from]
    ELSE SumRange(xs, from, (from + to) \div 2)
         + SumRange(xs, (from + to) \div 2 + 1, to)

\* techan.NewSimpleMovingAverage(indicator, window).Calculate(i)
SMA(xs, window, i) ==
    IF i < window - 1 THEN 0
    ELSE SumRange(xs, i - window + 2, i + 1) \div window

\* emaIndicator.Calculate at its indices 0..i: 0 below window-1, the SMA at
\* window-1, then x*alpha + previous*(1-alpha) with alpha = 2/(window+1).
EMAAt(before, xs, window, i) ==
    IF i < window - 1 THEN 0
    ELSE IF i = window - 1 THEN SMA(xs, window, i)
    ELSE (xs[i + 1] * 2) \div (window + 1)
         + (before[i] * (window - 1)) \div (window + 1)

\* The values at the indices up to `to`, given the values before them: the
\* next index is Len(before); the lower half is computed, then the upper.
RECURSIVE EMAUpTo(_, _, _, _)
EMAUpTo(before, xs, window, to) ==
    IF Len(before) > to THEN before
    ELSE IF Len(before) = to THEN Append(before, EMAAt(before, xs, window, to))
    ELSE EMAUpTo(EMAUpTo(before, xs, window, (Len(before) + to) \div 2), xs, window, to)

\* techan.NewEMAIndicator(indicator, window)
EMAIndicator(xs, window) ==
    IF xs = <<>> THEN <<>> ELSE EMAUpTo(<<>>, xs, window, Len(xs) - 1)

\* modifiedMovingAverageIndicator.Calculate at 0..i: as the EMA, with
\* previous + (x/window - previous/window).
MMAAt(before, xs, window, i) ==
    IF i < window - 1 THEN 0
    ELSE IF i = window - 1 THEN SMA(xs, window, i)
    ELSE before[i] + ((xs[i + 1] \div window) - (before[i] \div window))

RECURSIVE MMAUpTo(_, _, _, _)
MMAUpTo(before, xs, window, to) ==
    IF Len(before) > to THEN before
    ELSE IF Len(before) = to THEN Append(before, MMAAt(before, xs, window, to))
    ELSE MMAUpTo(MMAUpTo(before, xs, window, (Len(before) + to) \div 2), xs, window, to)

MMAIndicator(xs, window) ==
    IF xs = <<>> THEN <<>> ELSE MMAUpTo(<<>>, xs, window, Len(xs) - 1)

\* techan.NewGainIndicator / NewLossIndicator: the rise (fall) since the
\* previous index, 0 at index 0.
GainIndicator(xs) ==
    [k \in 1..Len(xs) |-> IF k > 1 /\ xs[k] - xs[k - 1] > 0 THEN xs[k] - xs[k - 1] ELSE 0]
LossIndicator(xs) ==
    [k \in 1..Len(xs) |-> IF k > 1 /\ xs[k - 1] - xs[k] > 0 THEN xs[k - 1] - xs[k] ELSE 0]

\* relativeStrengthIndexIndicator.Calculate(i): 100 - 100/(1 + avgGain/avgLoss),
\* the relative strength being 0 below window-1 and +Inf when avgLoss is 0.
RSI(xs, window, i) ==
    LET avgGain == MMAIndicator(GainIndicator(xs), window)[i + 1]
        avgLoss == MMAIndicator(LossIndicator(xs), window)[i + 1]
        infinite == i >= window - 1 /\ avgLoss = 0
        rs == IF i < window - 1 THEN 0 ELSE (avgGain * Scale) \div avgLoss
    IN  IF infinite THEN Dec(100)
        ELSE Dec(100) - (Dec(100) * Scale) \div (Scale + rs)

\* techan.NewDifferenceIndicator(a, b)
DifferenceIndicator(as, bs) == [k \in 1..Len(as) |-> as[k] - bs[k]]

\* techan.NewMACDIndicator(indicator, short, long): EMA(short) - EMA(long)
MACDIndicator(xs, short, long) ==
    DifferenceIndicator(EMAIndicator(xs, short), EMAIndicator(xs, long))

\* techan.NewMACDHistogramIndicator(macd, window): macd - EMA(macd, window)
MACDHistogramIndicator(macd, window) ==
    DifferenceIndicator(macd, EMAIndicator(macd, window))

(***************************************************************************)
(* analyze.go                                                              *)
(***************************************************************************)
\* Mutant: "<=" for "<", one more bar of warm-up.
NotEnoughBarsOffByOne(lastIdx) == lastIdx <= WarmUp
\* if lastIdx < 26 { return "WAIT" }
NotEnoughBars(lastIdx) == lastIdx < WarmUp

\* The values analyzeClassic reads at lastIdx (and lastIdx - 1).
ClassicValues(series) ==
    LET closePrices == ClosePriceIndicator(series)
        emaShort == EMAIndicator(closePrices, ShortWindow)
        emaLong == EMAIndicator(closePrices, LongWindow)
        macd == MACDIndicator(closePrices, MacdFast, MacdSlow)
        macdSignal == MACDHistogramIndicator(macd, MacdSignalWindow)
        lastIdx == LastIndex(series)
    IN  [emaShortNow |-> emaShort[lastIdx + 1],
         emaLongNow |-> emaLong[lastIdx + 1],
         emaShortPrev |-> emaShort[lastIdx],
         emaLongPrev |-> emaLong[lastIdx],
         rsiVal |-> RSI(closePrices, RsiWindow, lastIdx),
         macdVal |-> macd[lastIdx + 1],
         macdSignalVal |-> macdSignal[lastIdx + 1]]

analyzeClassic(series) ==
    IF NotEnoughBars(LastIndex(series)) THEN "WAIT"
    ELSE LET v == ClassicValues(series)
         IN  IF /\ v.emaShortNow > v.emaLongNow /\ v.emaShortPrev <= v.emaLongPrev
                /\ v.rsiVal < Dec(RsiOverbought)
                /\ v.macdVal > v.macdSignalVal
             THEN "BUY"
             ELSE IF /\ v.emaShortNow < v.emaLongNow /\ v.emaShortPrev >= v.emaLongPrev
                     /\ v.rsiVal > Dec(RsiOversold)
                     /\ v.macdVal < v.macdSignalVal
             THEN "SELL"
             ELSE "HOLD"

\* analyzeML: a placeholder that returns HOLD.
analyzeML(series) == "HOLD"

\* analyze: the dispatch on the global UseMLAnalyze.
analyze(useML, series) ==
    IF useML THEN analyzeML(series) ELSE analyzeClassic(series)

(***************************************************************************)
(* SpecTrade: one engine, ExecuteTrade called with any arguments.          *)
(***************************************************************************)
InitialBalances == {Zero, Rat(StartCash)}
FeeRates == {Zero, Norm(1, FeeDen)}
Prices == {Rat(k) : k \in 1..MaxPrice}
TradeTypes == {"BUY", "SELL"}

Configs ==
    [Symbol : {"BTCUSDT"}, InitialBalance : InitialBalances, TransactionFee : FeeRates]

InitTrade ==
    /\ config \in Configs
    /\ portfolio = NewPortfolio(config)
    /\ trades = <<>>
    /\ call = NoCall
    /\ ret = FALSE
    /\ klines = <<>>
    /\ idx = 0
    /\ pc = "engine"
    /\ signal = ""
    /\ equityCurve = <<>>
    /\ dailyReturns = <<>>
    /\ maxValue = Zero
    /\ maxDrawdown = Zero
    /\ result = NoResult
    /\ UseMLAnalyze = FALSE
    /\ ts = <<>>
    /\ action = ""
    /\ ml = <<>>
    /\ clock = 0
    /\ mlret = <<>>
    /\ added = <<>>

ExecuteTrade(symbol, tradeType, price, timestamp) ==
    LET r == ExecuteTradeResult(config, portfolio, trades, symbol, tradeType,
                                price, timestamp)
    IN  /\ pc = "engine"
        /\ Len(trades) < MaxTrades
        /\ call' = [symbol |-> symbol, tradeType |-> tradeType, price |-> price,
                    timestamp |-> timestamp]
        /\ ret' = r.ok
        /\ portfolio' = r.portfolio
        /\ trades' = r.trades
        /\ UNCHANGED <<config, klines, idx, pc, signal, equityCurve, dailyReturns,
                       maxValue, maxDrawdown, result, UseMLAnalyze, ts, action>>
        /\ UNCHANGED mlVars

NextTrade ==
    \E symbol \in Symbols, tradeType \in TradeTypes, price \in Prices,
       timestamp \in 0..MaxTime :
        ExecuteTrade(symbol, tradeType, price, timestamp)

SpecTrade == InitTrade /\ [][NextTrade]_vars

(***************************************************************************)
(* Fixed-point numbers: float64 statistics are numbers with MLScale units  *)
(* per 1, products and quotients rounded down. A value that is NaN or      *)
(* +-Inf in the code is the value NonFinite.                               *)
(***************************************************************************)
Min(a, b) == IF a < b THEN a ELSE b
Max(a, b) == IF a > b THEN a ELSE b

\* The least and the greatest value of a sequence.
SeqMin(xs) == CHOOSE v \in {xs[k] : k \in 1..Len(xs)} : \A k \in 1..Len(xs) : v <= xs[k]
SeqMax(xs) == CHOOSE v \in {xs[k] : k \in 1..Len(xs)} : \A k \in 1..Len(xs) : v >= xs[k]

MLScale == 10000         \* units per 1 of a feature value
WeightScale == MLScale * MLScale
NonFinite == -2147483647

\* a*b of two feature values, in feature units.
FMul(a, b) ==
    LET ah == a \div MLScale
        al == a % MLScale
        bh == b \div MLScale
        bl == b % MLScale
    IN  ah * bh * MLScale + ah * bl + al * bh + (al * bl) \div MLScale

\* The largest r in lo..hi with r*r <= n.
RECURSIVE RootIn(_, _, _)
RootIn(n, lo, hi) ==
    IF lo >= hi THEN lo
    ELSE LET mid == (lo + hi + 1) \div 2
         IN  IF mid * mid <= n THEN RootIn(n, mid, hi) ELSE RootIn(n, lo, mid - 1)

ISqrt(n) == IF n <= 0 THEN 0 ELSE RootIn(n, 0, Min(n, 46340))

RootOfScale == ISqrt(MLScale)

\* a/b of two feature values, in feature units (b > 0).
FDiv(a, b) ==
    LET q == a \div b
        r == a % b
        t == (r * RootOfScale) \div b
        r2 == (r * RootOfScale) % b
    IN  q * MLScale + t * (MLScale \div RootOfScale)
        + (r2 * (MLScale \div RootOfScale)) \div b

\* math.Sqrt of a feature value, in feature units.
FSqrt(a) ==
    IF a <= 0 THEN 0
    ELSE IF a < 2147483647 \div MLScale THEN ISqrt(a * MLScale)
    ELSE IF a < 2147483647 \div RootOfScale
         THEN ISqrt(a * RootOfScale) * ISqrt(MLScale \div RootOfScale)
    ELSE ISqrt(a) * RootOfScale

\* big.Decimal.Float(): an indicator value (Scale units) as a feature value.
Float(v) == (v * MLScale) \div Scale

\* math.IsNaN(v) || math.IsInf(v, 0)
IsNonFinite(v) == v = NonFinite

\* a/b as the float64 division computes it: not finite when b is 0.
Quotient(a, b) ==
    IF IsNonFinite(a) \/ IsNonFinite(b) \/ b = 0 THEN NonFinite
    ELSE IF b > 0 THEN FDiv(a, b)
    ELSE FDiv(-a, -b)

(***************************************************************************)
(* backtest.go: RunBacktest.  A kline is [OpenTime, Open, High, Low,        *)
(* Close], its prices whole numbers and its time in minutes.                *)
(***************************************************************************)
\* Mutant: the close parsed from the wrong field of the kline.
ClosePriceFromLow(kline) == kline.Low
\* close, _ := strconv.ParseFloat(kline.Close, 64)
ClosePriceOf(kline) == kline.Close

NewCandleOf(kline) ==
    [Period |-> NewTimePeriod(kline.OpenTime), OpenPrice |-> kline.Open,
     MaxPrice |-> kline.High, MinPrice |-> kline.Low,
     ClosePrice |-> ClosePriceOf(kline)]

\* for _, kline := range klines { ...; ts.AddCandle(c); ... }
\* The klines from..to added in turn to the series, which holds at most the
\* from-1 candles offered before; the lower half is added, then the upper.
RECURSIVE AddCandles(_, _, _, _)
AddCandles(series, ks, from, to) ==
    IF from > to \/ Len(series) >= from THEN series
    ELSE IF from = to THEN AddCandle(series, NewCandleOf(ks[from]))
    ELSE AddCandles(AddCandles(series, ks, from, (from + to) \div 2),
                    ks, (from + to) \div 2 + 1, to)

BuildSeries(ks, n) == AddCandles(<<>>, ks, 1, n)

\* Mutant: the whole series handed to analyze, not the prefix ending at i.
SubSeriesWhole(series, i) == series
\* subSeries := the candles ts.Candles[0..i]
SubSeries(series, i) == SubSeq(series, 1, i + 1)

\* Mutant: a sign slip, the value added to the peak.
DrawdownSignSlip(peak, currentValue) == RAdd(peak, currentValue)
\* drawdown := maxValue - currentValue
Drawdown(peak, currentValue) == RSub(peak, currentValue)

\* if currentValue > maxValue { maxValue = currentValue }
PeakAfter(peak, currentValue) == IF RGt(currentValue, peak) THEN currentValue ELSE peak

\* dailyReturns after the step: (currentValue - prevValue) / prevValue is
\* appended when there is a previous value and it is positive.
ReturnsAfter(returns, curve, currentValue) ==
    IF Len(curve) > 1 /\ RGt(curve[Len(curve) - 1], Zero)
    THEN Append(returns, RDiv(RSub(currentValue, curve[Len(curve) - 1]),
                              curve[Len(curve) - 1]))
    ELSE returns

\* What the loop body does with the signal: [ok, portfolio, trades].
TradeOnSignal(cfg, p, trs, sig, currentPrice, timestamp) ==
    IF sig = "BUY" \/ sig = "SELL"
    THEN ExecuteTradeResult(cfg, p, trs, cfg.Symbol, sig, currentPrice, timestamp)
    ELSE [ok |-> FALSE, portfolio |-> p, trades |-> trs]

\* RunBacktest up to the loop: no klines is an error; otherwise the series is
\* built and the loop starts at WarmUp.
RunBacktestStart ==
    /\ pc = "start"
    /\ pc' = IF Len(klines) = 0 THEN "error" ELSE "loop"
    /\ ts' = BuildSeries(klines, Len(klines))
    /\ idx' = WarmUp
    /\ equityCurve' = <<>>
    /\ dailyReturns' = <<>>
    /\ maxValue' = config.InitialBalance
    /\ maxDrawdown' = Zero
    /\ UNCHANGED <<config, portfolio, trades, call, ret, klines, signal, result,
                   UseMLAnalyze, action>>
    /\ UNCHANGED mlVars

\* One iteration of the loop, at index idx.
RunBacktestStep ==
    /\ pc = "loop"
    /\ idx < Len(klines)
    /\ idx < Len(ts)
    /\ LET currentPrice == Rat(ClosePriceOf(klines[idx + 1]))
           priced == [portfolio EXCEPT
                        !.LastPrices = MapSet(@, config.Symbol, currentPrice)]
           sig == analyze(UseMLAnalyze, SubSeries(ts, idx))
           timestamp == klines[idx + 1].OpenTime
           r == TradeOnSignal(config, priced, trades, sig, currentPrice, timestamp)
           currentValue == GetPortfolioValue(r.portfolio)
           curve == Append(equityCurve, currentValue)
           peak == PeakAfter(maxValue, currentValue)
           drawdown == Drawdown(peak, currentValue)
       IN  /\ signal' = sig
           /\ call' = IF sig = "BUY" \/ sig = "SELL"
                      THEN [symbol |-> config.Symbol, tradeType |-> sig,
                            price |-> currentPrice, timestamp |-> timestamp]
                      ELSE call
           /\ ret' = IF sig = "BUY" \/ sig = "SELL" THEN r.ok ELSE ret
           /\ portfolio' = r.portfolio
           /\ trades' = r.trades
           /\ equityCurve' = curve
           /\ dailyReturns' = ReturnsAfter(dailyReturns, curve, currentValue)
           /\ maxValue' = peak
           /\ maxDrawdown' = IF RGt(drawdown, maxDrawdown) THEN drawdown ELSE maxDrawdown
    /\ idx' = idx + 1
    /\ UNCHANGED <<config, klines, pc, result, UseMLAnalyze, ts, action>>
    /\ UNCHANGED mlVars

\* ts.Candles[j] with j past the end of ts: AddCandle refused a candle, so the
\* series is shorter than the klines, and the loop panics.
RunBacktestPanic ==
    /\ pc = "loop"
    /\ idx < Len(klines)
    /\ idx >= Len(ts)
    /\ pc' = "panic"
    /\ UNCHANGED <<config, portfolio, trades, call, ret, klines, idx, signal,
                   equityCurve, dailyReturns, maxValue, maxDrawdown, result,
                   UseMLAnalyze, ts, action>>
    /\ UNCHANGED mlVars

\* A float64 amount as a fixed-point statistic.
Fix(x) == (x.n \div x.d) * MLScale + ((x.n % x.d) * MLScale) \div x.d

\* calculateMean
calculateMean(values) ==
    IF Len(values) = 0 THEN 0
    ELSE SumRange(values, 1, Len(values)) \div Len(values)

\* backtest.go's calculateStdDev: math.Sqrt(sumSquares / (len(values)-1)),
\* computed on the exact squares when their sum is below 2^31, on rounded
\* squares otherwise.
calculateSampleStdDev(values, mean) ==
    IF Len(values) <= 1 THEN 0
    ELSE LET n == Len(values)
             diffs == [k \in 1..n |-> values[k] - mean]
             largest == SeqMax([k \in 1..n |-> Abs(diffs[k])])
         IN  IF largest <= 46340 /\ largest * largest <= 2147483647 \div n
             THEN ISqrt(SumRange([k \in 1..n |-> diffs[k] * diffs[k]], 1, n)
                            \div (n - 1))
             ELSE FSqrt(SumRange([k \in 1..n |-> FMul(diffs[k], diffs[k])], 1, n)
                            \div (n - 1))

DaysPerYear == 252       \* math.Sqrt(252)
Sqrt252 == FSqrt(DaysPerYear * MLScale)

\* Mutant: the quotient taken whatever the standard deviation is.
SharpeUnguarded(mean, stdDev) ==
    Quotient(FMul(mean, Sqrt252), FMul(stdDev, Sqrt252))
\* if stdDev > 0 { sharpeRatio = (mean * math.Sqrt(252)) / (stdDev * math.Sqrt(252)) }
SharpeOf(mean, stdDev) ==
    IF stdDev > 0 THEN Quotient(FMul(mean, Sqrt252), FMul(stdDev, Sqrt252))
    ELSE 0

\* var sharpeRatio float64; if len(dailyReturns) > 1 { ... }
SharpeRatioOf(returns) ==
    LET values == [k \in 1..Len(returns) |-> Fix(returns[k])]
        mean == calculateMean(values)
    IN  IF Len(returns) > 1 THEN SharpeOf(mean, calculateSampleStdDev(values, mean))
        ELSE 0

\* Mutant: the fee of the buy left out of the profit.
PnlWithoutBuyFee(trade, buyTrade) ==
    RSub(RMul(RSub(trade.Price, buyTrade.Price), trade.Quantity), trade.Fee)
\* pnl := (trade.Price - buyTrade.Price) * trade.Quantity - trade.Fee - buyTrade.Fee
Pnl(trade, buyTrade) ==
    RSub(RSub(RMul(RSub(trade.Price, buyTrade.Price), trade.Quantity), trade.Fee),
         buyTrade.Fee)

RAbs(x) == IF x.n < 0 THEN RNeg(x) ELSE x

\* for _, trade := range be.trades { ... }: the trades from k on, paired with
\* the stack buyTrades.
RECURSIVE PairTrades(_, _, _)
PairTrades(trs, k, acc) ==
    IF k > Len(trs) THEN acc
    ELSE LET trade == trs[k]
             top == acc.buyTrades[Len(acc.buyTrades)]
             pnl == Pnl(trade, top)
             popped == SubSeq(acc.buyTrades, 1, Len(acc.buyTrades) - 1)
         IN  PairTrades(trs, k + 1,
                 IF trade.Type = "BUY"
                 THEN [acc EXCEPT !.buyTrades = Append(@, trade)]
                 ELSE IF trade.Type = "SELL" /\ Len(acc.buyTrades) > 0
                 THEN IF RGt(pnl, Zero)
                      THEN [acc EXCEPT !.buyTrades = popped,
                                       !.winningTrades = @ + 1,
                                       !.totalWins = RAdd(@, pnl)]
                      ELSE [acc EXCEPT !.buyTrades = popped,
                                       !.losingTrades = @ + 1,
                                       !.totalLosses = RAdd(@, RAbs(pnl))]
                 ELSE acc)

\* The trade statistics of the result.
TradeStatistics(trs) ==
    LET acc == PairTrades(trs, 1, [buyTrades |-> <<>>, winningTrades |-> 0,
                                   losingTrades |-> 0, totalWins |-> Zero,
                                   totalLosses |-> Zero])
        totalCompletedTrades == acc.winningTrades + acc.losingTrades
    IN  [WinningTrades |-> acc.winningTrades,
         LosingTrades |-> acc.losingTrades,
         WinRate |-> IF totalCompletedTrades > 0
                     THEN RMul(Norm(acc.winningTrades, totalCompletedTrades), Rat(100))
                     ELSE Zero,
         AverageWin |-> IF acc.winningTrades > 0
                        THEN RDiv(acc.totalWins, Rat(acc.winningTrades)) ELSE Zero,
         AverageLoss |-> IF acc.losingTrades > 0
                         THEN RDiv(acc.totalLosses, Rat(acc.losingTrades)) ELSE Zero]

\* After the loop: the result.
RunBacktestFinish ==
    /\ pc = "loop"
    /\ idx >= Len(klines)
    /\ pc' = "done"
    /\ result' = [FinalBalance |-> portfolio.Cash,
                  FinalValue |-> GetPortfolioValue(portfolio),
                  TotalReturn |-> RSub(GetPortfolioValue(portfolio),
                                       config.InitialBalance),
                  MaxDrawdown |-> maxDrawdown,
                  MaxDrawdownPct |-> RMul(RDiv(maxDrawdown, maxValue), Rat(100)),
                  TotalTrades |-> Len(trades),
                  WinRate |-> TradeStatistics(trades).WinRate,
                  WinningTrades |-> TradeStatistics(trades).WinningTrades,
                  LosingTrades |-> TradeStatistics(trades).LosingTrades,
                  AverageWin |-> TradeStatistics(trades).AverageWin,
                  AverageLoss |-> TradeStatistics(trades).AverageLoss,
                  SharpeRatio |-> SharpeRatioOf(dailyReturns)]
    /\ UNCHANGED <<config, portfolio, trades, call, ret, klines, idx, signal,
                   equityCurve, dailyReturns, maxValue, maxDrawdown, UseMLAnalyze,
                   ts, action>>
    /\ UNCHANGED mlVars

(***************************************************************************)
(* The klines of the model: zigzag closes (a fall, a rally, a fall, a       *)
(* rebound, a fall), rising closes over zigzag lows, short series, no       *)
(* klines, and klines closer together than the candle's 15 minutes.         *)
(***************************************************************************)
BasePrice == 100

\* A shape is a sequence of legs <<length, slope>>.
RECURSIVE ShapeLen(_)
ShapeLen(shape) == IF shape = <<>> THEN 0 ELSE shape[1][1] + ShapeLen(Tail(shape))

\* The price move after n steps along the shape.
RECURSIVE ShapeMove(_, _)
ShapeMove(shape, n) ==
    IF shape = <<>> \/ n <= 0 THEN 0
    ELSE IF n <= shape[1][1] THEN n * shape[1][2]
    ELSE shape[1][1] * shape[1][2] + ShapeMove(Tail(shape), n - shape[1][1])

Zig(shape) == [k \in 1..(ShapeLen(shape) + 1) |-> BasePrice + ShapeMove(shape, k - 1)]

RallyLens == {8, 9}
ReboundLens == {2, 4}
ReboundSlopes == {3, 6}
Shapes ==
    { << <<20, -3>>, <<rally, 5>>, <<9, -2>>, <<rebound, slope>>, <<6, -4>> >> :
        rally \in RallyLens, rebound \in ReboundLens, slope \in ReboundSlopes }

\* Candles that open at the previous close.
BarsOf(closes, lows, spacing) ==
    [k \in 1..Len(closes) |->
        LET open == IF k = 1 THEN closes[1] ELSE closes[k - 1]
        IN  [OpenTime |-> (k - 1) * spacing, Open |-> open,
             High |-> Max(open, closes[k]) + 1, Low |-> lows[k], Close |-> closes[k]]]

ZigBars(shape, spacing) ==
    LET closes == Zig(shape)
    IN  BarsOf(closes, [k \in 1..Len(closes) |-> closes[k] - 6], spacing)

\* Rising closes: steady, fast then slow, slow then fast.
RisingShapes ==
    { << <<50, 2>> >>, << <<20, 6>>, <<30, 1>> >>, << <<20, 1>>, <<30, 6>> >> }

\* Strictly rising closes; the lows are a zigzag below them.
RisingBars(rise, shape) ==
    LET lows == Zig(shape)
    IN  BarsOf([k \in 1..Len(lows) |-> BasePrice + 1 + ShapeMove(rise, k - 1)],
               lows, CandleMinutes)

ZigFamily == {ZigBars(shape, CandleMinutes) : shape \in Shapes}
RisingFamily ==
    {RisingBars(rise, << <<20, -3>>, <<8, 5>>, <<9, -2>>, <<rebound, 3>>, <<6, -4>> >>) :
        rise \in RisingShapes, rebound \in ReboundLens}
AShape == << <<20, -3>>, <<8, 5>>, <<9, -2>>, <<4, 3>>, <<6, -4>> >>
ShortFamily == {SubSeq(ZigBars(AShape, CandleMinutes), 1, n) : n \in {WarmUp, WarmUp + 1}}
TightFamily == {ZigBars(AShape, 5)}

\* A long rally bought early and sold above the buying price; a buy, a sale at
\* a loss and a second buy; a buy just before a dip that a rally to new highs
\* follows; a rise and a fall that end in a signal to sell what was never bought.
WinShape == << <<23, -2>>, <<14, 4>>, <<3, -1>>, <<18, 8>>, <<14, -8>>, <<7, 8>>, <<6, -8>> >>
RebuyShape == << <<24, -2>>, <<9, 3>>, <<4, -3>>, <<9, 8>>, <<9, -6>>, <<7, 3>>, <<6, -8>> >>
DipShape == << <<20, -2>>, <<7, 5>>, <<3, -4>>, <<6, 8>>, <<1, -1>> >>
SellFirstShape == << <<22, 1>>, <<12, -3>>, <<6, 4>>, <<4, -2>> >>
TradedFamily ==
    {ZigBars(shape, CandleMinutes) :
        shape \in {WinShape, RebuyShape, DipShape, SellFirstShape}}

KlineFamily ==
    ZigFamily \cup RisingFamily \cup ShortFamily \cup TightFamily \cup TradedFamily
        \cup {<<>>}

(***************************************************************************)
(* SpecBacktest: one engine, one RunBacktest.                              *)
(***************************************************************************)
BacktestConfigs ==
    [Symbol : {"BTCUSDT"}, InitialBalance : {Rat(StartCash)}, TransactionFee : FeeRates]

InitBacktest ==
    /\ config \in BacktestConfigs
    /\ klines \in KlineFamily
    /\ UseMLAnalyze \in BOOLEAN
    /\ portfolio = NewPortfolio(config)
    /\ trades = <<>>
    /\ call = NoCall
    /\ ret = FALSE
    /\ idx = 0
    /\ pc = "start"
    /\ signal = ""
    /\ equityCurve = <<>>
    /\ dailyReturns = <<>>
    /\ maxValue = Zero
    /\ maxDrawdown = Zero
    /\ result = NoResult
    /\ ts = <<>>
    /\ action = ""
    /\ ml = <<>>
    /\ clock = 0
    /\ mlret = <<>>
    /\ added = <<>>

NextBacktest ==
    \/ RunBacktestStart
    \/ RunBacktestStep
    \/ RunBacktestPanic
    \/ RunBacktestFinish

SpecBacktest == InitBacktest /\ [][NextBacktest]_vars

(***************************************************************************)
(* SpecMonitor: main.go.  fetchHistoricalData loads the series; every tick  *)
(* of the main loop adds a candle at the ticker's price and analyzes.       *)
(***************************************************************************)
MaxTicks == 2
HistoryLens == {0} \cup (WarmUp - 2 .. WarmUp + 2)
TickDelays == {5, CandleMinutes}
TickMoves == {-4, 3}

\* main.go's own analyze: the same text as analyzeClassic.
analyzeMonitor(series) == analyzeClassic(series)

\* The candle the main loop builds from the ticker: open and close at the
\* last price, the period starting now.
TickerCandle(now, price) ==
    [Period |-> NewTimePeriod(now), OpenPrice |-> price, MaxPrice |-> price + 1,
     MinPrice |-> price - 1, ClosePrice |-> price]

InitMonitor ==
    /\ \E n \in HistoryLens :
          /\ klines = SubSeq(ZigBars(AShape, CandleMinutes), 1, n)
          /\ ts = BuildSeries(klines, n)
    /\ config \in BacktestConfigs
    /\ UseMLAnalyze = FALSE
    /\ portfolio = NewPortfolio(config)
    /\ trades = <<>>
    /\ call = NoCall
    /\ ret = FALSE
    /\ idx = 0
    /\ pc = "monitor"
    /\ signal = ""
    /\ equityCurve = <<>>
    /\ dailyReturns = <<>>
    /\ maxValue = Zero
    /\ maxDrawdown = Zero
    /\ result = NoResult
    /\ action = ""
    /\ ml = <<>>
    /\ clock = 0
    /\ mlret = <<>>
    /\ added = <<>>

\* One pass of the main loop's body for the symbol; idx counts the ticks.
Tick(now, price) ==
    /\ pc = "monitor"
    /\ idx < MaxTicks
    /\ ts' = AddCandle(ts, TickerCandle(now, price))
    /\ action' = analyzeMonitor(ts')
    /\ idx' = idx + 1
    /\ UNCHANGED <<config, portfolio, trades, call, ret, klines, pc, signal,
                   equityCurve, dailyReturns, maxValue, maxDrawdown, result,
                   UseMLAnalyze>>
    /\ UNCHANGED mlVars

NextMonitor ==
    \E delay \in TickDelays, move \in TickMoves :
        LET lastStart == IF ts = <<>> THEN 0 ELSE ts[Len(ts)].Period.Start
            lastClose == IF ts = <<>> THEN BasePrice ELSE ts[Len(ts)].ClosePrice
        IN  Tick(lastStart + delay, lastClose + move)

SpecMonitor == InitMonitor /\ [][NextMonitor]_vars

(***************************************************************************)
(* Claims about the portfolio (checked under SpecTrade).                   *)
(***************************************************************************)
LastTrade == trades[Len(trades)]
HeldSymbols == {s \in DOMAIN portfolio.Holdings : RGt(portfolio.Holdings[s], Zero)}

RECURSIVE LedgerCash(_, _)
LedgerCash(trs, k) ==
    IF k = 0 THEN config.InitialBalance
    ELSE LET t == trs[k]
             gross == RMul(t.Quantity, t.Price)
         IN  IF t.Type = "BUY"
             THEN RSub(LedgerCash(trs, k - 1), RAdd(gross, t.Fee))
             ELSE RAdd(LedgerCash(trs, k - 1), RSub(gross, t.Fee))

RECURSIVE HoldingsAtLastPrice(_)
HoldingsAtLastPrice(syms) ==
    IF syms = {} THEN Zero
    ELSE LET s == CHOOSE x \in syms : TRUE
         IN  RAdd(RMul(portfolio.Holdings[s], portfolio.LastPrices[s]),
                  HoldingsAtLastPrice(syms \ {s}))

\* C2: the portfolio value is the cash plus every holding valued at its last
\* price, and the cash is what the trade log's cash flows leave of InitialBalance.
C2_ValueAndLedgerReconcile ==
    /\ DOMAIN portfolio.Holdings \subseteq DOMAIN portfolio.LastPrices
    /\ GetPortfolioValue(portfolio)
          = RAdd(portfolio.Cash, HoldingsAtLastPrice(DOMAIN portfolio.Holdings))
    /\ portfolio.Cash = LedgerCash(trades, Len(trades))

\* A round trip and a second BUY, fees charged, the position worth something.
C2_Witness ==
    /\ Len(trades) = 3
    /\ LastTrade.Type = "BUY"
    /\ RGt(LastTrade.Fee, Zero)
    /\ RGt(GetPortfolioValue(portfolio), portfolio.Cash)

C4_SellLiquidates ==
    [][ (call'.tradeType = "SELL" /\ call'.symbol \in HeldSymbols) =>
          LET price == call'.price
              rate == config.TransactionFee
              quantity == portfolio.Holdings[call'.symbol]
              gross == RMul(quantity, price)
              fee == RMul(gross, rate)
              t == trades'[Len(trades')]
          IN  /\ ret' = TRUE
              /\ call'.symbol \notin DOMAIN portfolio'.Holdings
              /\ portfolio'.Cash = RAdd(portfolio.Cash, RSub(gross, fee))
              /\ Len(trades') = Len(trades) + 1
              /\ SubSeq(trades', 1, Len(trades)) = trades
              /\ t.Type = "SELL" /\ t.Symbol = call'.symbol /\ t.Price = price
              /\ t.Quantity = quantity
              /\ t.Fee = fee ]_vars

\* A SELL was executed with a fee: the symbol is no longer held.
C4_Witness ==
    /\ ret = TRUE
    /\ call.tradeType = "SELL"
    /\ Len(trades) > 1
    /\ LastTrade.Type = "SELL"
    /\ RGt(LastTrade.Fee, Zero)
    /\ call.symbol \notin DOMAIN portfolio.Holdings
    /\ RGt(portfolio.Cash, Zero)

\* C5: a rejected execution is a no-op: a SELL with no holding for the symbol,
\* or a BUY with no spendable cash, returns false and leaves cash, holdings and
\* the trade log unchanged.
C5_RejectedIsNoOp ==
    [][ (\/ call'.tradeType = "SELL" /\ call'.symbol \notin DOMAIN portfolio.Holdings
         \/ call'.tradeType = "BUY" /\ RLe(portfolio.Cash, Zero)) =>
          /\ ret' = FALSE
          /\ portfolio'.Cash = portfolio.Cash
          /\ portfolio'.Holdings = portfolio.Holdings
          /\ trades' = trades ]_vars

\* A SELL of a symbol that is not held was rejected while another is held.
C5_Witness ==
    /\ ret = FALSE
    /\ call.tradeType = "SELL"
    /\ call.symbol \notin DOMAIN portfolio.Holdings
    /\ HeldSymbols # {}

\* A BUY was rejected: all the cash is already in the position.
C5_WitnessBuy ==
    /\ ret = FALSE
    /\ call.tradeType = "BUY"
    /\ portfolio.Cash = Zero
    /\ HeldSymbols # {}

(***************************************************************************)
(* Claims about RunBacktest (checked under SpecBacktest).                   *)
(***************************************************************************)
\* C6: in every backtest run the reported maximum drawdown is at most the peak
\* equity of the run (maxValue: the highest of the initial balance and every
\* value of the equity curve), while the run goes and in its result.
C6_DrawdownAtMostPeak ==
    /\ pc \in {"loop", "done"} => RLe(maxDrawdown, maxValue)
    /\ pc = "done" => RLe(result.MaxDrawdown, maxValue)

\* A finished run that traded and lost value from its peak.
C6_Witness ==
    /\ pc = "done"
    /\ Len(trades) > 0
    /\ RGt(result.MaxDrawdown, Zero)

\* The signal and the trade of a run over the klines cut after index i.
SignalOfPrefix(ks, i) ==
    analyze(UseMLAnalyze, SubSeries(BuildSeries(SubSeq(ks, 1, i + 1), i + 1), i))

\* C7: the signal obtained at index i depends only on bars 0..i: the run over
\* the series cut after i obtains the same signal at i as the run over the
\* longer series, and a trade made at i carries the signal, the close and the
\* time of bar i.
C7_SignalIsCausal ==
    (pc \in {"loop", "done"} /\ idx > WarmUp) =>
        /\ signal = SignalOfPrefix(klines, idx - 1)
        /\ (signal \in {"BUY", "SELL"} /\ ret) =>
              /\ LastTrade.Type = signal
              /\ LastTrade.Price = Rat(klines[idx].Close)
              /\ LastTrade.Timestamp = klines[idx].OpenTime

\* A BUY or SELL traded at an index with bars after it.
C7_Witness ==
    /\ pc = "loop"
    /\ idx > WarmUp
    /\ idx < Len(klines)
    /\ signal \in {"BUY", "SELL"}
    /\ ret
    /\ LastTrade.Timestamp = klines[idx].OpenTime

StrictlyIncreasing(ks) ==
    \A k \in 1..(Len(ks) - 1) : ks[k].Close < ks[k + 1].Close

TradesOfType(tradeType) == {k \in 1..Len(trades) : trades[k].Type = tradeType}

\* C8: over klines whose closes strictly increase, a backtest with the
\* rule-based strategy gets no SELL signal, makes no SELL trade and makes at
\* most one BUY trade.
C8_RisingSeriesNeverSells ==
    (pc \in {"loop", "done"} /\ ~UseMLAnalyze /\ StrictlyIncreasing(klines)) =>
        /\ signal # "SELL"
        /\ TradesOfType("SELL") = {}
        /\ Cardinality(TradesOfType("BUY")) <= 1

\* A finished rule-based run over rising closes that went through the loop.
C8_Witness ==
    /\ pc = "done"
    /\ ~UseMLAnalyze
    /\ StrictlyIncreasing(klines)
    /\ Len(klines) > WarmUp + 1
    /\ Len(equityCurve) = Len(klines) - WarmUp

\* The rule as the documentation states it: the MACD against its signal line,
\* the EMA of the MACD over 9 bars.
DocumentedSignal(series) ==
    LET closePrices == ClosePriceIndicator(series)
        v == ClassicValues(series)
        signalLine == EMAIndicator(MACDIndicator(closePrices, MacdFast, MacdSlow),
                                   MacdSignalWindow)[LastIndex(series) + 1]
    IN  IF /\ v.emaShortPrev <= v.emaLongPrev /\ v.emaShortNow > v.emaLongNow
           /\ v.rsiVal < Dec(RsiOverbought)
           /\ v.macdVal > signalLine
        THEN "BUY"
        ELSE IF /\ v.emaShortPrev >= v.emaLongPrev /\ v.emaShortNow < v.emaLongNow
                /\ v.rsiVal > Dec(RsiOversold)
                /\ v.macdVal < signalLine
        THEN "SELL"
        ELSE "HOLD"

\* C9: the rule-based strategy returns BUY exactly when EMA9 crosses above
\* EMA21 and RSI14 < 70 and MACD > signal, SELL exactly when EMA9 crosses below
\* EMA21 and RSI14 > 30 and MACD < signal, otherwise HOLD, the signal being the
\* MACD's signal line EMA(MACD, 9).  The code compares the MACD with the MACD
\* histogram (MACD minus its signal line), so this does not hold.
C9_SignalFollowsDocumentedRule ==
    (pc \in {"loop", "done"} /\ idx > WarmUp /\ ~UseMLAnalyze) =>
        signal = DocumentedSignal(SubSeries(ts, idx - 1))

C10_WitnessWait ==
    /\ Len(ts) = 26
    /\ action = "WAIT"

(***************************************************************************)
(* ml_strategy.go: the trainable predictor.                                *)
(*                                                                         *)
(* float64 features, errors and predictions are fixed-point numbers with   *)
(* MLScale units per 1 and weights are fixed-point numbers with            *)
(* MLScale*MLScale units per 1; products and quotients are rounded down.   *)
(* A value that is NaN or +-Inf in the code is the value NonFinite.        *)
(***************************************************************************)

(***************************************************************************)
(* ml_cli.go: buildTimeSeries; ml_strategy.go: ExtractFeatures.            *)
(***************************************************************************)
\* buildTimeSeries: the candles of the klines, each with Volume 0.
buildTimeSeries(ks) ==
    LET series == BuildSeries(ks, Len(ks))
    IN  [k \in 1..Len(series) |->
            [Period |-> series[k].Period, OpenPrice |-> series[k].OpenPrice,
             MaxPrice |-> series[k].MaxPrice, MinPrice |-> series[k].MinPrice,
             ClosePrice |-> series[k].ClosePrice, Volume |-> 0]]

AtrPeriod == 14          \* ml.calculateATR(ts, index, 14)
BollingerPeriod == 20    \* ml.calculateSMA(closePrices, index, 20)
VolumePeriod == 20       \* ml.calculateSMA(volumeIndicator, index, 20)
HoursPerDay == 24        \* float64(now.Hour()) / 24.0
DaysPerWeek == 7         \* float64(now.Weekday()) / 7.0

\* now.Hour() and now.Weekday() of a time given in minutes since a Sunday 00:00.
MinutesPerHour == 60
Hour(t) == (t \div MinutesPerHour) % HoursPerDay
Weekday(t) == (t \div (MinutesPerHour * HoursPerDay)) % DaysPerWeek

\* techan.NewHighPriceIndicator, NewLowPriceIndicator, NewVolumeIndicator as floats
HighPrices(series) == [k \in 1..Len(series) |-> series[k].MaxPrice * MLScale]
LowPrices(series) == [k \in 1..Len(series) |-> series[k].MinPrice * MLScale]
ClosePrices(series) == [k \in 1..Len(series) |-> series[k].ClosePrice * MLScale]
Volumes(series) == [k \in 1..Len(series) |-> series[k].Volume * MLScale]

\* The true range of bar i: max(high-low, |high-prevClose|, |low-prevClose|).
TrueRange(series, i) ==
    LET high == HighPrices(series)[i + 1]
        low == LowPrices(series)[i + 1]
        prevClose == ClosePrices(series)[i]
    IN  Max(high - low, Max(Abs(high - prevClose), Abs(low - prevClose)))

\* calculateATR
calculateATR(series, index, period) ==
    IF index < period THEN 0
    ELSE SumRange([k \in 1..Len(series) |-> IF k - 1 > index - period /\ k - 1 <= index
                                             THEN TrueRange(series, k - 1) ELSE 0],
                  index - period + 2, index + 1) \div period

\* calculateSMA
calculateSMA(xs, index, period) ==
    IF index < period - 1 THEN 0
    ELSE SumRange(xs, index - period + 2, index + 1) \div period

\* math.Sqrt(sumSquares / n) for the n differences diffs[from..to]: computed
\* on the exact squares when their sum is below 2^31, on rounded squares
\* otherwise.
RootMeanSquare(diffs, from, to) ==
    LET n == to - from + 1
        largest == SeqMax([k \in 1..n |-> Abs(diffs[from + k - 1])])
    IN  IF largest <= 46340 /\ largest * largest <= 2147483647 \div n
        THEN ISqrt(SumRange([k \in 1..Len(diffs) |->
                                IF k >= from /\ k <= to THEN diffs[k] * diffs[k] ELSE 0],
                            from, to) \div n)
        ELSE FSqrt(SumRange([k \in 1..Len(diffs) |->
                                IF k >= from /\ k <= to THEN FMul(diffs[k], diffs[k]) ELSE 0],
                            from, to) \div n)

\* Mutant: the mean of the window returned as its deviation.
calculateStdDevIsMean(xs, index, period) ==
    IF index < period - 1 THEN 0
    ELSE SumRange(xs, index - period + 2, index + 1) \div period
\* calculateStdDev
calculateStdDev(xs, index, period) ==
    IF index < period - 1 THEN 0
    ELSE LET mean == calculateSMA(xs, index, period)
         IN  RootMeanSquare([k \in 1..Len(xs) |-> xs[k] - mean],
                            index - period + 2, index + 1)

\* (currentPrice - prevPrice) / prevPrice, 0 when the bar does not exist or
\* its price is 0.
PriceChange(closes, index, back) ==
    IF index >= back /\ closes[index - back + 1] # 0
    THEN Quotient(closes[index + 1] - closes[index - back + 1], closes[index - back + 1])
    ELSE 0

\* sanitize := func(v float64) float64
sanitize(v) == IF IsNonFinite(v) THEN 0 ELSE v

sanitizeFeatures(f) == [name \in DOMAIN f |-> sanitize(f[name])]

\* ExtractFeatures(ts, index) called at time t: the pointer it returns, <<>>
\* for nil (index < FeatureWindow) and <<features>> otherwise.
ExtractFeatures(cfg, series, index, t) ==
    IF index < cfg.FeatureWindow THEN <<>>
    ELSE
    LET closePrices == ClosePriceIndicator(series)
        closes == ClosePrices(series)
        currentPrice == closes[index + 1]
        ema9 == Float(EMAIndicator(closePrices, ShortWindow)[index + 1])
        ema21 == Float(EMAIndicator(closePrices, LongWindow)[index + 1])
        macd == MACDIndicator(closePrices, MacdFast, MacdSlow)
        macdVal == Float(macd[index + 1])
        macdSignal == Float(EMAIndicator(macd, MacdSignalWindow)[index + 1])
        volMA == calculateSMA(Volumes(series), index, VolumePeriod)
        currentVol == Volumes(series)[index + 1]
        sma == calculateSMA(closes, index, BollingerPeriod)
        stdDev == calculateStdDev(closes, index, BollingerPeriod)
        upperBB == sma + 2 * stdDev
        lowerBB == sma - 2 * stdDev
        bandWidth == upperBB - lowerBB
        highPrice == HighPrices(series)[index + 1]
        lowPrice == LowPrices(series)[index + 1]
        openPrice == series[index + 1].OpenPrice * MLScale
        upperWick == Max(highPrice - currentPrice, highPrice - openPrice)
        lowerWick == Max(currentPrice - lowPrice, openPrice - lowPrice)
    IN  << sanitizeFeatures(
        [PriceChange1 |-> PriceChange(closes, index, 1),
         PriceChange5 |-> PriceChange(closes, index, 5),
         PriceChange10 |-> PriceChange(closes, index, 10),
         RSI |-> Float(RSI(closePrices, RsiWindow, index)),
         EMA9 |-> ema9,
         EMA21 |-> ema21,
         EMASpread |-> IF ema21 # 0 THEN Quotient(ema9 - ema21, ema21) ELSE 0,
         MACD |-> macdVal,
         MACDSignal |-> macdSignal,
         MACDHistogram |-> macdVal - macdSignal,
         VolumeRatio |-> IF volMA > 0 THEN Quotient(currentVol, volMA) ELSE MLScale,
         VolumeMA |-> volMA,
         ATR |-> calculateATR(series, index, AtrPeriod),
         BollingerWidth |-> IF sma # 0 THEN Quotient(bandWidth, sma) ELSE 0,
         BollingerPosition |->
             IF bandWidth # 0 THEN Quotient(currentPrice - lowerBB, bandWidth) ELSE 0,
         HighLowRatio |->
             IF currentPrice # 0 THEN Quotient(highPrice - lowPrice, currentPrice) ELSE 0,
         CandleBody |->
             IF currentPrice # 0 THEN Quotient(Abs(currentPrice - openPrice), currentPrice)
             ELSE 0,
         CandleWick |->
             IF currentPrice # 0 THEN Quotient(upperWick + lowerWick, currentPrice) ELSE 0,
         HourOfDay |-> (Hour(t) * MLScale) \div HoursPerDay,
         DayOfWeek |-> (Weekday(t) * MLScale) \div DaysPerWeek,
         FutureReturn |-> 0]) >>

(***************************************************************************)
(* ml_strategy.go: the MLModel.                                            *)
(***************************************************************************)
MinStatsSamples == 10    \* if len(ml.features) < 10 { return }
LearningRateDen == 10000 \* learningRate := 0.0001
L2LambdaDen == 10000     \* l2Lambda: 1e-4
Epochs == 100            \* epochs := 100
EarlyStopDen == 10000    \* if ml.performance.TrainingLoss < 0.0001 { break }
ThresholdDen == 1000     \* threshold := 0.001
ConfidenceFactor == 100  \* math.Min(math.Abs(expectedReturn)*100, 1.0)
DefaultRatioNum == 8     \* int(float64(len(ml.features)) * 0.8)
DefaultRatioDen == 10

\* featureNames of calculateFeatureStats
FeatureNames ==
    {"PriceChange1", "PriceChange5", "PriceChange10", "RSI", "EMASpread",
     "MACDHistogram", "ATR", "BollingerWidth", "BollingerPosition", "VolumeRatio"}

\* The names trainLinearModel updates and predictValue reads, besides "bias".
WeightNames ==
    {"PriceChange1", "PriceChange5", "PriceChange10", "RSI", "EMASpread",
     "MACDHistogram", "ATR", "BollingerPosition", "VolumeRatio"}

ZeroPerformance ==
    [Accuracy |-> 0, Precision |-> 0, Recall |-> 0, F1Score |-> 0,
     TrainingLoss |-> 0, ValidationLoss |-> 0]

NewMLModel(cfg) ==
    [config |-> cfg, features |-> <<>>, trainedWeights |-> EmptyMap,
     featureStats |-> EmptyMap, lastTraining |-> 0, trainingCount |-> 0,
     performance |-> ZeroPerformance]

\* Mutant: the newest sample is dropped on overflow, not the oldest.
EvictNewest(features) == SubSeq(features, 1, Len(features) - 1)
\* ml.features = ml.features[1:]
EvictOldest(features) == Tail(features)

\* AddTrainingData: the model after the call.
AddTrainingData(m, features) ==
    LET appended == Append(m.features, sanitizeFeatures(features))
    IN  [m EXCEPT !.features =
            IF Len(appended) > m.config.LookbackPeriod THEN EvictOldest(appended)
            ELSE appended]

\* getFeatureValues
getFeatureValues(m, name) == [k \in 1..Len(m.features) |-> m.features[k][name]]

\* calculateStats
calculateStats(values) ==
    IF Len(values) = 0 THEN [Mean |-> 0, StdDev |-> 0, Min |-> 0, Max |-> 0]
    ELSE LET mean == SumRange(values, 1, Len(values)) \div Len(values)
         IN  [Mean |-> mean,
              StdDev |-> RootMeanSquare([k \in 1..Len(values) |-> values[k] - mean],
                                        1, Len(values)),
              Min |-> SeqMin(values), Max |-> SeqMax(values)]

\* calculateFeatureStats: the featureStats after the call.
calculateFeatureStats(m) ==
    IF Len(m.features) < MinStatsSamples THEN m.featureStats
    ELSE [name \in FeatureNames |-> calculateStats(getFeatureValues(m, name))]

\* normalize
normalize(stats, featureName, value) ==
    IF featureName \notin DOMAIN stats \/ stats[featureName].StdDev = 0
       \/ IsNonFinite(value)
    THEN 0
    ELSE sanitize(Quotient(value - stats[featureName].Mean, stats[featureName].StdDev))

\* NormalizeFeatures, first half: the featureStats after the call (computed when
\* there are none).
StatsAfterNormalize(m) ==
    IF DOMAIN m.featureStats = {} THEN calculateFeatureStats(m) ELSE m.featureStats

\* NormalizeFeatures, second half: the features normalized with these stats.
NormalizeFeatures(stats, features) ==
    [name \in DOMAIN features |->
        IF name \in FeatureNames THEN normalize(stats, name, features[name])
        ELSE features[name]]

\* Go's map read: 0 when the key is absent.
WeightOf(weights, name) == IF name \in DOMAIN weights THEN weights[name] ELSE 0

\* weight * value, a weight times a feature value, in feature units.
WMul(w, v) == ((w \div MLScale) * v + ((w % MLScale) * v) \div MLScale) \div MLScale

\* The sum of the values of a map over these keys.
RECURSIVE SumMap(_, _)
SumMap(f, names) ==
    IF names = {} THEN 0
    ELSE LET name == CHOOSE n \in names : TRUE
         IN  f[name] + SumMap(f, names \ {name})

\* predictValue
predictValue(weights, features) ==
    WeightOf(weights, "bias") \div MLScale
    + SumMap([name \in WeightNames |-> WMul(WeightOf(weights, name), features[name])],
             WeightNames)

\* int(x) of a quotient a/b with b > 0: truncation toward zero.
Trunc(a, b) == IF a >= 0 THEN a \div b ELSE -((-a) \div b)

\* TrainModel's trainSize for a buffer of n samples; ratio is a rational.
TrainSize(n, ratio) ==
    LET byRatio == Trunc(n * ratio.n, ratio.d)
        byDefault == Trunc(n * DefaultRatioNum, DefaultRatioDen)
    IN  IF byRatio <= 0 \/ byRatio >= n
        THEN IF byDefault <= 0 THEN n - 1 ELSE byDefault
        ELSE byRatio

\* The weights trainLinearModel starts from.
InitialWeights ==
    [name \in (WeightNames \ {"VolumeRatio"}) \cup {"bias"} |->
        CASE name = "PriceChange1" -> WeightScale \div 10
          [] name = "PriceChange5" -> (15 * WeightScale) \div 100
          [] name = "PriceChange10" -> WeightScale \div 10
          [] name = "RSI" -> WeightScale \div 20
          [] name = "EMASpread" -> WeightScale \div 5
          [] name = "MACDHistogram" -> (15 * WeightScale) \div 100
          [] name = "ATR" -> -(WeightScale \div 10)
          [] name = "BollingerPosition" -> WeightScale \div 10
          [] OTHER -> 0]

\* gradient clipping on error: to [-1, 1]
Clip(error) ==
    IF error > MLScale THEN MLScale ELSE IF error < -MLScale THEN -MLScale ELSE error

\* One pass of the inner loop of trainLinearModel for the sample data[acc.k]
\* (normalized): the weights and the total error after it.
SampleStep(acc, label, normalized) ==
    LET prediction == predictValue(acc.weights, normalized)
        error == Clip(label - prediction)
    IN  [weights |->
            [name \in DOMAIN acc.weights \cup WeightNames \cup {"bias"} |->
                IF name = "bias"
                THEN WeightOf(acc.weights, name) + (error * MLScale) \div LearningRateDen
                ELSE IF name \in WeightNames
                THEN WeightOf(acc.weights, name)
                     + (error * normalized[name]) \div LearningRateDen
                ELSE acc.weights[name]],
         totalError |-> acc.totalError + FMul(error, error),
         k |-> acc.k + 1]

RECURSIVE SampleFold(_, _, _)
SampleFold(acc, trainData, normalized) ==
    IF acc.k > Len(trainData) THEN acc
    ELSE SampleFold(SampleStep(acc, trainData[acc.k].FutureReturn, normalized[acc.k]),
                    trainData, normalized)

\* One epoch of trainLinearModel: the samples, the L2 term and the decay, the
\* training loss, the early stop.
RunEpoch(st, trainData, normalized) ==
    LET acc == SampleFold([weights |-> st.weights, totalError |-> 0, k |-> 1],
                          trainData, normalized)
        w == acc.weights
        decayed == DOMAIN w \ {"bias"}
        reg == SumMap([name \in decayed |->
                          FMul(w[name] \div MLScale, w[name] \div MLScale)], decayed)
        loss == IF Len(trainData) > 0
                THEN acc.totalError \div Len(trainData) + reg \div L2LambdaDen
                ELSE st.loss
    IN  [weights |->
            [name \in DOMAIN w |->
                IF name = "bias" THEN w[name]
                ELSE w[name] - w[name] \div (LearningRateDen * L2LambdaDen)],
         loss |-> loss,
         epoch |-> st.epoch + 1,
         stopped |-> loss < MLScale \div EarlyStopDen]

\* The epochs st.epoch..to, unless the loop has stopped: the lower half of
\* them, then the upper.
RECURSIVE EpochsUpTo(_, _, _, _)
EpochsUpTo(st, trainData, normalized, to) ==
    IF st.stopped \/ st.epoch > to THEN st
    ELSE IF st.epoch = to THEN RunEpoch(st, trainData, normalized)
    ELSE EpochsUpTo(EpochsUpTo(st, trainData, normalized, (st.epoch + to) \div 2),
                    trainData, normalized, to)

\* trainLinearModel: the weights and the training loss after it.
trainLinearModel(m, trainData) ==
    LET normalized ==
            [k \in 1..Len(trainData) |->
                NormalizeFeatures(StatsAfterNormalize(m), trainData[k])]
    IN  EpochsUpTo([weights |-> InitialWeights, loss |-> m.performance.TrainingLoss,
                    epoch |-> 0, stopped |-> FALSE],
                   trainData, normalized, Epochs - 1)

\* The direction of a return: 1 above the threshold, -1 below its negative.
DirectionOf(value) ==
    IF value > MLScale \div ThresholdDen THEN 1
    ELSE IF value < -(MLScale \div ThresholdDen) THEN -1
    ELSE 0

\* evaluateModel's loop: the counts and the total error over validationData.
RECURSIVE EvaluateFold(_, _, _, _)
EvaluateFold(acc, weights, stats, validationData) ==
    IF acc.k > Len(validationData) THEN acc
    ELSE LET data == sanitizeFeatures(validationData[acc.k])
             prediction == predictValue(weights, NormalizeFeatures(stats, data))
             error == data.FutureReturn - prediction
             predictedDirection == DirectionOf(prediction)
             actualDirection == DirectionOf(data.FutureReturn)
         IN  EvaluateFold(
                 [k |-> acc.k + 1,
                  correct |-> acc.correct
                      + (IF predictedDirection = actualDirection THEN 1 ELSE 0),
                  totalError |-> acc.totalError + FMul(error, error),
                  truePositives |-> acc.truePositives
                      + (IF predictedDirection = 1 /\ actualDirection = 1 THEN 1 ELSE 0),
                  falsePositives |-> acc.falsePositives
                      + (IF predictedDirection = 1 /\ actualDirection # 1 THEN 1 ELSE 0),
                  falseNegatives |-> acc.falseNegatives
                      + (IF predictedDirection # 1 /\ actualDirection = 1 THEN 1 ELSE 0)],
                 weights, stats, validationData)

\* evaluateModel: the performance after the call.
evaluateModel(m, validationData) ==
    IF Len(validationData) = 0 THEN m.performance
    ELSE LET acc == EvaluateFold([k |-> 1, correct |-> 0, totalError |-> 0,
                                  truePositives |-> 0, falsePositives |-> 0,
                                  falseNegatives |-> 0],
                                 m.trainedWeights, StatsAfterNormalize(m), validationData)
             n == Len(validationData)
             precision == IF acc.truePositives + acc.falsePositives > 0
                          THEN (acc.truePositives * MLScale)
                               \div (acc.truePositives + acc.falsePositives)
                          ELSE m.performance.Precision
             recall == IF acc.truePositives + acc.falseNegatives > 0
                       THEN (acc.truePositives * MLScale)
                            \div (acc.truePositives + acc.falseNegatives)
                       ELSE m.performance.Recall
         IN  [m.performance EXCEPT
                 !.ValidationLoss = acc.totalError \div n,
                 !.Accuracy = (acc.correct * MLScale) \div n,
                 !.Precision = precision,
                 !.Recall = recall,
                 !.F1Score = IF precision + recall > 0
                             THEN Quotient(2 * FMul(precision, recall), precision + recall)
                             ELSE m.performance.F1Score]

\* Mutant: the training runs on whatever the buffer holds.
TooFewSamplesNever(m) == FALSE
\* if len(ml.features) < ml.config.MinTrainingPeriod
TooFewSamples(m) == Len(m.features) < m.config.MinTrainingPeriod

\* TrainModel called at time t: what it returns ("error", "nil", or "panic"
\* when the slice bound is negative), the model after it and the trainSize it
\* split the buffer at.
TrainModel(m, t) ==
    IF TooFewSamples(m) THEN [err |-> "error", model |-> m, trainSize |-> 0]
    ELSE
    LET withStats == [m EXCEPT !.featureStats = calculateFeatureStats(m)]
        trainSize == TrainSize(Len(m.features), m.config.TrainingRatio)
    IN  IF trainSize < 0
        THEN [err |-> "panic", model |-> withStats, trainSize |-> trainSize]
        ELSE
        LET trainData == SubSeq(m.features, 1, trainSize)
            validationData == SubSeq(m.features, trainSize + 1, Len(m.features))
            trained == trainLinearModel(withStats, trainData)
            fitted == [withStats EXCEPT
                          !.trainedWeights = trained.weights,
                          !.performance.TrainingLoss = trained.loss]
        IN  [err |-> "nil",
             trainSize |-> trainSize,
             model |-> [fitted EXCEPT
                           !.performance = evaluateModel(fitted, validationData),
                           !.lastTraining = t,
                           !.trainingCount = m.trainingCount + 1]]

\* Mutant: the confidence is not capped at 1.
ConfidenceUncapped(expectedReturn) == Abs(expectedReturn) * ConfidenceFactor
\* math.Min(math.Abs(expectedReturn)*100, 1.0)
ConfidenceOf(expectedReturn) == Min(Abs(expectedReturn) * ConfidenceFactor, MLScale)

\* Mutant: a Predict that answers HOLD and drops the weights.
PredictDropsWeights(m, features) ==
    [result |-> [Direction |-> "HOLD", Confidence |-> 0, ExpectedReturn |-> 0],
     model |-> [m EXCEPT !.trainedWeights = EmptyMap]]
\* Mutant: a Predict that answers BUY with full confidence, trained or not.
PredictAlwaysBuys(m, features) ==
    [result |-> [Direction |-> "BUY", Confidence |-> MLScale, ExpectedReturn |-> 0],
     model |-> m]
\* Predict: the PredictionResult and the model after the call.
Predict(m, features) ==
    IF DOMAIN m.trainedWeights = {}
    THEN [result |-> [Direction |-> "HOLD", Confidence |-> 0, ExpectedReturn |-> 0],
          model |-> m]
    ELSE
    LET stats == StatsAfterNormalize(m)
        expectedReturn == predictValue(m.trainedWeights, NormalizeFeatures(stats, features))
        confidence == ConfidenceOf(expectedReturn)
    IN  [result |->
            IF expectedReturn > MLScale \div ThresholdDen
            THEN [Direction |-> "BUY", Confidence |-> confidence,
                  ExpectedReturn |-> expectedReturn]
            ELSE IF expectedReturn < -(MLScale \div ThresholdDen)
            THEN [Direction |-> "SELL", Confidence |-> confidence,
                  ExpectedReturn |-> expectedReturn]
            ELSE [Direction |-> "HOLD", Confidence |-> 0,
                  ExpectedReturn |-> expectedReturn],
         model |-> [m EXCEPT !.featureStats = stats]]

\* Mutant: ">=" for ">", a retraining is due when the interval has just elapsed.
IntervalElapsedInclusive(m, t) == t - m.lastTraining >= m.config.RetrainingPeriod
\* timeSinceTraining > retrainingInterval
IntervalElapsed(m, t) == t - m.lastTraining > m.config.RetrainingPeriod

\* ShouldRetrain called at time t.
ShouldRetrain(m, t) ==
    IF DOMAIN m.trainedWeights = {}
    THEN Len(m.features) >= m.config.MinTrainingPeriod
    ELSE IntervalElapsed(m, t) /\ Len(m.features) >= m.config.MinTrainingPeriod

(***************************************************************************)
(* SpecML: one MLModel on one series, the calls of ml_cli.go in any order: *)
(* the next sample of the training pipeline is added, the model is         *)
(* trained, a prediction is made from the features of an index,            *)
(* ShouldRetrain is asked. The pipeline adds its samples in one go; time   *)
(* passes between the calls that follow it.                                *)
(***************************************************************************)
MaxTrainings == 2        \* successful TrainModel calls per model
MaxClockSteps == 2       \* how often time passes
ClockStep == 30          \* minutes that pass at a time
ShortBars == 40          \* bars of the short series
LongBars == 46           \* bars of the long series
Horizon == 5             \* klines[i+5]: the bar the future return looks at
FeatureWindow == 30      \* FeatureWindow: 30
RetrainingMinutes == 30  \* RetrainingPeriod of the configurations

MLConfigOf(lookback, minTraining) ==
    [LookbackPeriod |-> lookback, TrainingRatio |-> Norm(DefaultRatioNum, DefaultRatioDen),
     MinTrainingPeriod |-> minTraining, RetrainingPeriod |-> RetrainingMinutes,
     FeatureWindow |-> FeatureWindow]

FlatBars(n) == BarsOf([k \in 1..n |-> BasePrice], [k \in 1..n |-> BasePrice],
                      CandleMinutes)

\* A model with a window shorter than the pipeline, on a short series that ends
\* in a rebound; a model that can be trained below and above the ten samples
\* the statistics need, on a series that ends in a fall; a model that asks
\* for no minimum of samples, on a series of one price; the first model again,
\* on a series whose rally turns into a fall within the last bars.
ReboundShape == << <<20, -3>>, <<8, 5>>, <<4, -2>>, <<9, 3>> >>
TurnShape == << <<20, -3>>, <<8, 5>>, <<7, 3>>, <<5, -4>> >>

MLSetups ==
    { [cfg |-> MLConfigOf(3, 2),
       klines |-> SubSeq(ZigBars(ReboundShape, CandleMinutes), 1, ShortBars)],
      [cfg |-> MLConfigOf(12, 9),
       klines |-> SubSeq(ZigBars(AShape, CandleMinutes), 1, LongBars)],
      [cfg |-> MLConfigOf(3, 0), klines |-> FlatBars(ShortBars)],
      [cfg |-> MLConfigOf(3, 2),
       klines |-> SubSeq(ZigBars(TurnShape, CandleMinutes), 1, ShortBars)] }

NoMLCall ==
    [op |-> "", index |-> 0, features |-> <<>>, prediction |-> <<>>, err |-> "",
     should |-> FALSE, trainSize |-> 0]

InitML ==
    /\ \E setup \in MLSetups :
        /\ klines = setup.klines
        /\ ts = buildTimeSeries(setup.klines)
        /\ ml = NewMLModel(setup.cfg)
        /\ clock = setup.klines[Len(setup.klines)].OpenTime + CandleMinutes
    /\ config = [Symbol |-> "BTCUSDT", InitialBalance |-> Zero, TransactionFee |-> Zero]
    /\ portfolio = NewPortfolio(config)
    /\ trades = <<>>
    /\ call = NoCall
    /\ ret = FALSE
    /\ idx = 0
    /\ pc = "ml"
    /\ signal = ""
    /\ equityCurve = <<>>
    /\ dailyReturns = <<>>
    /\ maxValue = Zero
    /\ maxDrawdown = Zero
    /\ result = NoResult
    /\ UseMLAnalyze = TRUE
    /\ action = ""
    /\ mlret = NoMLCall
    /\ added = <<>>

\* ml_cli.go, the training pipeline at index i: the features of i with the
\* return over the next Horizon bars as the label.
TrainingSample(cfg, ks, series, i, t) ==
    LET features == ExtractFeatures(cfg, series, i, t)[1]
    IN  IF i + Horizon < Len(ks)
        THEN [features EXCEPT !.FutureReturn =
                 Quotient((ks[i + Horizon + 1].Close - ks[i + 1].Close) * MLScale,
                          ks[i + 1].Close * MLScale)]
        ELSE features

\* for i := config.FeatureWindow; i < len(klines)-5; i++ { ...AddTrainingData }
CallAddTrainingData ==
    LET i == ml.config.FeatureWindow + Len(added)
        features == TrainingSample(ml.config, klines, ts, i, clock)
    IN  /\ mlret.err # "panic"
        /\ i < Len(klines) - Horizon
        /\ ml' = AddTrainingData(ml, features)
        /\ added' = Append(added, sanitizeFeatures(features))
        /\ mlret' = [NoMLCall EXCEPT !.op = "AddTrainingData", !.index = i]
        /\ UNCHANGED clock
        /\ UNCHANGED <<config, portfolio, trades, call, ret, klines, idx, pc, signal,
                       equityCurve, dailyReturns, maxValue, maxDrawdown, result,
                       UseMLAnalyze, ts, action>>

CallTrainModel ==
    LET r == TrainModel(ml, clock)
    IN  /\ mlret.err # "panic"
        /\ ml.trainingCount < MaxTrainings
        /\ ml' = r.model
        /\ mlret' = [NoMLCall EXCEPT !.op = "TrainModel", !.err = r.err,
                                      !.trainSize = r.trainSize]
        /\ UNCHANGED <<clock, added>>
        /\ UNCHANGED <<config, portfolio, trades, call, ret, klines, idx, pc, signal,
                       equityCurve, dailyReturns, maxValue, maxDrawdown, result,
                       UseMLAnalyze, ts, action>>

\* The indices features are asked for: one below the feature window, and the
\* last bar; a prediction is asked for the last bar.
FeatureIndices == {ml.config.FeatureWindow - 1, LastIndex(ts)}

\* features := mlModel.ExtractFeatures(ts, i); if features == nil { continue };
\* prediction := mlModel.Predict(*features)
CallPredict(i) ==
    LET features == ExtractFeatures(ml.config, ts, i, clock)
        r == Predict(ml, features[1])
    IN  /\ mlret.err # "panic"
        /\ ml' = IF features = <<>> THEN ml ELSE r.model
        /\ mlret' = [NoMLCall EXCEPT !.op = "Predict", !.index = i,
                                     !.features = features,
                                     !.prediction = IF features = <<>> THEN <<>>
                                                    ELSE <<r.result>>]
        /\ UNCHANGED <<clock, added>>
        /\ UNCHANGED <<config, portfolio, trades, call, ret, klines, idx, pc, signal,
                       equityCurve, dailyReturns, maxValue, maxDrawdown, result,
                       UseMLAnalyze, ts, action>>

CallShouldRetrain ==
    /\ mlret.err # "panic"
    /\ mlret' = [NoMLCall EXCEPT !.op = "ShouldRetrain", !.should = ShouldRetrain(ml, clock)]
    /\ UNCHANGED <<ml, clock, added>>
    /\ UNCHANGED <<config, portfolio, trades, call, ret, klines, idx, pc, signal,
                   equityCurve, dailyReturns, maxValue, maxDrawdown, result,
                   UseMLAnalyze, ts, action>>

TimePasses ==
    /\ ml.config.FeatureWindow + Len(added) >= Len(klines) - Horizon
    /\ clock + ClockStep
         <= klines[Len(klines)].OpenTime + CandleMinutes + MaxClockSteps * ClockStep
    /\ clock' = clock + ClockStep
    /\ UNCHANGED <<ml, mlret, added>>
    /\ UNCHANGED <<config, portfolio, trades, call, ret, klines, idx, pc, signal,
                   equityCurve, dailyReturns, maxValue, maxDrawdown, result,
                   UseMLAnalyze, ts, action>>

NextML ==
    \/ CallAddTrainingData
    \/ CallTrainModel
    \/ \E i \in FeatureIndices : CallPredict(i)
    \/ CallShouldRetrain
    \/ TimePasses

SpecML == InitML /\ [][NextML]_vars

(***************************************************************************)
(* Claims about the trainable predictor (checked under SpecML).            *)
(***************************************************************************)
\* The latest call was a Predict that got features and returned a prediction.
Predicted == mlret.op = "Predict" /\ mlret.prediction # <<>>

Trained == DOMAIN ml.trainedWeights # {}

\* C11: when the model-based strategy is selected, the signal analyze returns
\* for a series is the direction that Predict returns for the feature vector
\* of the series' current (last) index.
C11_AnalyzeReturnsPrediction ==
    (UseMLAnalyze /\ Predicted /\ mlret.index = LastIndex(ts))
        => analyze(UseMLAnalyze, ts) = mlret.prediction[1].Direction

\* C12: a TrainModel call with fewer buffered samples than MinTrainingPeriod
\* returns the insufficient-data error and leaves the weights, the feature
\* statistics, the training count, the last-training time and the performance
\* metrics as they were.
C12_TrainModelTooFewSamplesIsNoOp ==
    [][(/\ Len(ml.features) < ml.config.MinTrainingPeriod
        /\ mlret'.op = "TrainModel"
        /\ clock' = clock)
       => (/\ mlret'.err = "error"
           /\ ml'.trainedWeights = ml.trainedWeights
           /\ ml'.featureStats = ml.featureStats
           /\ ml'.trainingCount = ml.trainingCount
           /\ ml'.lastTraining = ml.lastTraining
           /\ ml'.performance = ml.performance)]_vars

\* TrainModel was called on a buffer that holds a sample, but too few.
C12_Witness ==
    /\ mlret.op = "TrainModel"
    /\ mlret.err = "error"
    /\ Len(ml.features) >= 1
    /\ Len(ml.features) < ml.config.MinTrainingPeriod

\* C13: the weight map becomes non-empty only in a successful TrainModel
\* call, and once non-empty it never becomes empty again, whatever
\* AddTrainingData, TrainModel, Predict and ShouldRetrain calls follow.
C13_TrainedOnlyByTrainModelAndForever ==
    [][/\ (DOMAIN ml.trainedWeights = {} /\ DOMAIN ml'.trainedWeights # {})
          => (mlret'.op = "TrainModel" /\ mlret'.err = "nil")
       /\ DOMAIN ml.trainedWeights # {} => DOMAIN ml'.trainedWeights # {}]_vars

\* A trained model was trained again, and calls were made on it since.
C13_Witness ==
    /\ Trained
    /\ ml.trainingCount = 2
    /\ mlret.op \in {"AddTrainingData", "Predict", "ShouldRetrain"}

\* C14: Predict on an untrained predictor returns direction HOLD with
\* confidence 0, for every feature vector and every buffer content.
C14_UntrainedPredictsHold ==
    (Predicted /\ ~Trained)
        => (mlret.prediction[1].Direction = "HOLD" /\ mlret.prediction[1].Confidence = 0)

\* An untrained predictor with samples in its buffer was asked to predict.
C14_Witness ==
    /\ Predicted
    /\ ~Trained
    /\ Len(ml.features) >= 1

\* C15: for a trained predictor, Predict classifies with the dead zone 0.001:
\* BUY iff the expected return is above 0.001, SELL iff it is below -0.001,
\* HOLD otherwise; and the confidence it returns lies in [0, 1]. The expected
\* return is the weighted sum of the normalized features.
C15_TrainedPredictClassifies ==
    (Predicted /\ Trained) =>
        LET p == mlret.prediction[1]
            expectedReturn ==
                predictValue(ml.trainedWeights,
                             NormalizeFeatures(ml.featureStats, mlret.features[1]))
        IN  /\ p.ExpectedReturn = expectedReturn
            /\ p.Direction = "BUY" <=> expectedReturn > MLScale \div 1000
            /\ p.Direction = "SELL" <=> expectedReturn < -(MLScale \div 1000)
            /\ p.Direction = "HOLD"
                 <=> (expectedReturn <= MLScale \div 1000
                      /\ expectedReturn >= -(MLScale \div 1000))
            /\ p.Confidence >= 0
            /\ p.Confidence <= MLScale

\* A trained predictor answered SELL with the confidence capped at 1.
C15_Witness ==
    /\ Predicted
    /\ Trained
    /\ mlret.prediction[1].Direction = "SELL"
    /\ mlret.prediction[1].Confidence = MLScale

\* A trained predictor answered BUY.
C15_WitnessBuy ==
    /\ Predicted
    /\ Trained
    /\ mlret.prediction[1].Direction = "BUY"

\* A trained predictor answered HOLD.
C15_WitnessHold ==
    /\ Predicted
    /\ Trained
    /\ mlret.prediction[1].Direction = "HOLD"

\* C16: Predict does not modify predictor state: the weights, the feature
\* statistics, the training buffer, the training count and the last-training
\* time are the same after any Predict call as before it.
C16_PredictLeavesModelAlone ==
    [][(mlret'.op = "Predict" /\ clock' = clock)
          => /\ ml'.trainedWeights = ml.trainedWeights
             /\ ml'.featureStats = ml.featureStats
             /\ ml'.features = ml.features
             /\ ml'.trainingCount = ml.trainingCount
             /\ ml'.lastTraining = ml.lastTraining]_vars

\* The samples the buffer must hold after the calls made so far: the last
\* LookbackPeriod of them, oldest first.
MostRecent(samples, n) ==
    IF Len(samples) <= n THEN samples
    ELSE SubSeq(samples, Len(samples) - n + 1, Len(samples))

\* C17: after any sequence of AddTrainingData calls the training buffer holds
\* at most LookbackPeriod samples, and they are exactly the most recently added
\* samples in insertion order (the oldest is evicted on overflow).
C17_BufferIsMostRecentWindow ==
    /\ Len(ml.features) <= ml.config.LookbackPeriod
    /\ ml.features = MostRecent(added, ml.config.LookbackPeriod)

C17_Witness ==
    /\ Len(added) > ml.config.LookbackPeriod + 1
    /\ Len(ml.features) = ml.config.LookbackPeriod
    /\ ml.features[1] # added[1]

EnoughSamples == Len(ml.features) >= ml.config.MinTrainingPeriod
SinceLastTraining == clock - ml.lastTraining

\* C18: ShouldRetrain returns true exactly when the predictor is untrained and
\* the buffer has at least MinTrainingPeriod samples, or it is trained, the time
\* since the last training exceeds the retraining interval and the buffer has
\* at least MinTrainingPeriod samples.
C18_ShouldRetrainCondition ==
    [][(mlret'.op = "ShouldRetrain" /\ clock' = clock)
          => (mlret'.should
                <=> \/ ~Trained /\ EnoughSamples
                    \/ /\ Trained
                       /\ SinceLastTraining > ml.config.RetrainingPeriod
                       /\ EnoughSamples)]_vars

\* Asked exactly one retraining interval after a training: not yet due.
C18_Witness ==
    /\ mlret.op = "ShouldRetrain"
    /\ Trained
    /\ EnoughSamples
    /\ SinceLastTraining = ml.config.RetrainingPeriod
    /\ ~mlret.should

C18_WitnessDue ==
    /\ mlret.op = "ShouldRetrain"
    /\ Trained
    /\ SinceLastTraining > ml.config.RetrainingPeriod
    /\ mlret.should

C18_WitnessUntrained ==
    /\ mlret.op = "ShouldRetrain"
    /\ ~Trained
    /\ mlret.should

\* C19: calling ExtractFeatures twice at the same index on the same series
\* yields identical feature vectors, whenever the two calls are made: the
\* vector a Predict call was given is the vector a call made now returns.
C19_ExtractFeaturesIdempotent ==
    Predicted => ExtractFeatures(ml.config, ts, mlret.index, clock) = mlret.features

\* The instants of bar i: from the start of its period to its end.
BarTimes(i) == ts[i + 1].Period.Start .. ts[i + 1].Period.End

\* Both time features computed from one instant of bar i.
TimeFeaturesFromBar(features, i) ==
    \E t \in BarTimes(i) :
        /\ features.HourOfDay = (Hour(t) * MLScale) \div HoursPerDay
        /\ features.DayOfWeek = (Weekday(t) * MLScale) \div DaysPerWeek

TimeFeaturesInUnit(features) ==
    /\ 0 <= features.HourOfDay /\ features.HourOfDay < MLScale
    /\ 0 <= features.DayOfWeek /\ features.DayOfWeek < MLScale

\* C20: the HourOfDay and DayOfWeek fields of the feature vector extracted at
\* index i are derived from the timestamp of bar i and lie in [0,1); stated of
\* the vector every Predict call was given and of every training sample.
C20_TimeFeaturesFromBarTimestamp ==
    /\ Predicted
          => /\ TimeFeaturesFromBar(mlret.features[1], mlret.index)
             /\ TimeFeaturesInUnit(mlret.features[1])
    /\ \A k \in 1..Len(added) :
          /\ TimeFeaturesFromBar(added[k], ml.config.FeatureWindow + k - 1)
          /\ TimeFeaturesInUnit(added[k])

ReturnValues == [k \in 1..Len(dailyReturns) |-> Fix(dailyReturns[k])]
ReturnsMean == calculateMean(ReturnValues)
ReturnsStdDev == calculateSampleStdDev(ReturnValues, ReturnsMean)
AllReturnsEqual == \A j, k \in 1..Len(dailyReturns) : dailyReturns[j] = dailyReturns[k]

\* C21: the Sharpe ratio reported by a backtest is 0 whenever the step returns
\* have zero standard deviation (all of them equal, an all-zero series
\* included) or fewer than 2 returns exist.
C21_SharpeZeroWithoutSpread ==
    (pc = "done" /\ (Len(dailyReturns) < 2 \/ AllReturnsEqual))
        => result.SharpeRatio = 0

\* A run without a trade: every step return is 0.
C21_Witness ==
    /\ pc = "done"
    /\ Len(dailyReturns) >= 2
    /\ \A k \in 1..Len(dailyReturns) : dailyReturns[k] = Zero
    /\ result.SharpeRatio = 0

C21_WitnessFewReturns ==
    /\ pc = "done"
    /\ Len(equityCurve) = 1
    /\ Len(dailyReturns) = 0
    /\ result.SharpeRatio = 0

SharpeTolerance == MLScale \div 100

\* C22: when the sample standard deviation of the step returns is positive,
\* the reported Sharpe ratio equals mean(returns)/stdDev(returns) multiplied by
\* the annualization factor sqrt(252) (to a hundredth).
C22_SharpeIsAnnualized ==
    (pc = "done" /\ Len(dailyReturns) > 1 /\ ReturnsStdDev > 0)
        => Abs(result.SharpeRatio
               - FMul(Quotient(ReturnsMean, ReturnsStdDev), Sqrt252)) <= SharpeTolerance

FlatSeries == \A k \in 1..Len(klines) : klines[k].Close = klines[1].Close

BollingerIsZero(features) ==
    features.BollingerWidth = 0 /\ features.BollingerPosition = 0

C24_TrainModelSplitIsProper ==
    [][(mlret'.op = "TrainModel" /\ clock' = clock
            /\ Len(ml.features) >= ml.config.MinTrainingPeriod)
          => /\ mlret'.err = "nil"
             /\ 0 < mlret'.trainSize
             /\ mlret'.trainSize < Len(ml.features)]_vars

\* The statistics of every feature name over the whole buffer of the model.
StatsOfBuffer(m) ==
    [name \in FeatureNames |-> calculateStats(getFeatureValues(m, name))]

\* C25: after every successful TrainModel call, the stored feature statistics
\* are those computed from the entire buffer as it is at that call (never
\* absent and never left over from an earlier buffer).
C25_TrainModelRecomputesStats ==
    [][(mlret'.op = "TrainModel" /\ clock' = clock /\ mlret'.err = "nil")
          => /\ DOMAIN ml'.featureStats = FeatureNames
             /\ ml'.featureStats = StatsOfBuffer(ml)]_vars

\* The number of BUY trades before trade j that no SELL before j has taken.
RECURSIVE UnmatchedBuys(_)
UnmatchedBuys(j) ==
    IF j <= 1 THEN 0
    ELSE LET before == UnmatchedBuys(j - 1)
         IN  IF trades[j - 1].Type = "BUY" THEN before + 1
             ELSE IF before > 0 THEN before - 1 ELSE 0

PairedSells ==
    {j \in 1..Len(trades) : trades[j].Type = "SELL" /\ UnmatchedBuys(j) > 0}

\* The most recent unmatched BUY before the SELL j.
BuyOf(j) ==
    CHOOSE i \in 1..(j - 1) :
        /\ trades[i].Type = "BUY"
        /\ UnmatchedBuys(i) = UnmatchedBuys(j) - 1
        /\ \A h \in (i + 1)..(j - 1) :
              ~(trades[h].Type = "BUY" /\ UnmatchedBuys(h) = UnmatchedBuys(j) - 1)

ProfitOf(j) ==
    RSub(RSub(RMul(RSub(trades[j].Price, trades[BuyOf(j)].Price), trades[j].Quantity),
              trades[j].Fee),
         trades[BuyOf(j)].Fee)

RECURSIVE SumOfProfits(_)
SumOfProfits(sells) ==
    IF sells = {} THEN Zero
    ELSE LET j == CHOOSE k \in sells : TRUE
         IN  RAdd(RAbs(ProfitOf(j)), SumOfProfits(sells \ {j}))

WinningSells == {j \in PairedSells : RGt(ProfitOf(j), Zero)}
LosingSells == PairedSells \ WinningSells

C26_WitnessLosing ==
    /\ pc = "done"
    /\ result.LosingTrades = 1
    /\ Len(trades) = 3
    /\ RGt(result.AverageLoss, Zero)

\* The running peak equity at step k: the initial balance or a value of the
\* equity curve up to k, whichever is greatest.
PeakAt(k) ==
    LET values == {config.InitialBalance} \cup {equityCurve[j] : j \in 1..k}
    IN  CHOOSE v \in values : \A w \in values : RGe(v, w)

DrawdownPctAt(k) ==
    RMul(RDiv(RSub(PeakAt(k), equityCurve[k]), PeakAt(k)), Rat(100))

\* C27: the reported MaxDrawdownPct is the maximum, over all steps of the run,
\* of the drawdown at that step expressed as a percentage of the running peak
\* equity at that step.
C27_MaxDrawdownPctIsMaxOverSteps ==
    pc = "done"
        => /\ \A k \in 1..Len(equityCurve) : RLe(DrawdownPctAt(k), result.MaxDrawdownPct)
           /\ \/ \E k \in 1..Len(equityCurve) : DrawdownPctAt(k) = result.MaxDrawdownPct
              \/ Len(equityCurve) = 0 /\ result.MaxDrawdownPct = Zero

\* cash + holdings * close of the bar at index i.
ValueAtClose(i) ==
    RAdd(portfolio.Cash,
         RMul(HoldingOf(portfolio, config.Symbol), Rat(klines[i + 1].Close)))

\* C28: a backtest over n bars processes exactly the indices 26..n-1 in
\* increasing order and appends exactly one equity-curve value (cash +
\* holdings * current close) per processed index, so the equity curve has
\* max(0, n-26) entries and no trade carries a timestamp of a bar before
\* index 26.
C28_OneEquityValuePerIndexFromWarmUp ==
    /\ pc = "loop"
          => /\ Len(equityCurve) = idx - WarmUp
             /\ Len(equityCurve) > 0
                   => equityCurve[Len(equityCurve)] = ValueAtClose(idx - 1)
    /\ pc \in {"done", "panic"}
          => Len(equityCurve) = Max(0, Len(klines) - WarmUp)
    /\ \A k \in 1..Len(trades) :
          /\ Len(klines) > WarmUp
          /\ trades[k].Timestamp >= klines[WarmUp + 1].OpenTime

C29_WitnessAllCash ==
    /\ pc = "done"
    /\ Len(trades) = 2
    /\ RGt(portfolio.Cash, Zero)
    /\ DOMAIN portfolio.Holdings = {}

\* The metrics evaluateModel would report for the model m on validationData
\* when nothing of an earlier snapshot is at hand.
MetricNames == {"Accuracy", "Precision", "Recall", "F1Score", "ValidationLoss"}

MetricsOfSlice(m, validationData) ==
    evaluateModel([m EXCEPT !.performance = ZeroPerformance], validationData)

\* The validation slice of a TrainModel call on the buffer of m.
ValidationSliceOf(m) ==
    SubSeq(m.features,
           TrainSize(Len(m.features), m.config.TrainingRatio) + 1,
           Len(m.features))

\* C30: after every successful TrainModel call the accuracy, precision,
\* recall, F1 and validation loss of the performance snapshot are those
\* computed from that call's validation slice alone; no metric of an earlier
\* training survives a retraining.
C30_SnapshotFromValidationSliceOnly ==
    [][(mlret'.op = "TrainModel" /\ mlret'.err = "nil"
            /\ ml'.trainingCount = ml.trainingCount + 1)
          => \A name \in MetricNames :
                ml'.performance[name]
                    = MetricsOfSlice(ml', ValidationSliceOf(ml))[name]]_vars

====
